---------------------------- MODULE Spec2Model ----------------------------
(***************************************************************************)
(* A model of src/src/components/kaptainhumanizer.jsx: the rewrite         *)
(* pipeline, the detector heuristic and the component's handlers.          *)
(*                                                                         *)
(* A JavaScript string is a sequence of one-character strings.  Positions  *)
(* are 1-based here and 0-based in the source: the source's index k is     *)
(* position k+1.  A regular expression is an operator that finds its       *)
(* matches the way the engine does: leftmost first, greedy, backtracking   *)
(* where the pattern needs it.  Math.random is a nondeterministic choice:  *)
(* a function that draws returns the set of the texts it can return.       *)
(***************************************************************************)
EXTENDS Integers, Sequences, FiniteSets, TLC

(***************************************************************************)
(* Characters                                                              *)
(***************************************************************************)
LowerSeq ==
    << "a","b","c","d","e","f","g","h","i","j","k","l","m",
       "n","o","p","q","r","s","t","u","v","w","x","y","z" >>
UpperSeq ==
    << "A","B","C","D","E","F","G","H","I","J","K","L","M",
       "N","O","P","Q","R","S","T","U","V","W","X","Y","Z" >>
Lower == { LowerSeq[i] : i \in 1..26 }
Upper == { UpperSeq[i] : i \in 1..26 }
Digit == { "0","1","2","3","4","5","6","7","8","9" }
Letter == Lower \cup Upper
AlNum == Letter \cup Digit
\* \w
WordChar == AlNum \cup { "_" }
\* \s, as far as the model's texts go
Space == { " ", "\n", "\t", "\r" }
\* [.!?]
Terminator == { ".", "!", "?" }

UpperOf == [ c \in Lower |-> UpperSeq[CHOOSE i \in 1..26 : LowerSeq[i] = c] ]
LowerOf == [ c \in Upper |-> LowerSeq[CHOOSE i \in 1..26 : UpperSeq[i] = c] ]
toUpperChar(c) == IF c \in Lower THEN UpperOf[c] ELSE c
toLowerChar(c) == IF c \in Upper THEN LowerOf[c] ELSE c
toUpperCase(s) == [ i \in 1..Len(s) |-> toUpperChar(s[i]) ]
toLowerCase(s) == [ i \in 1..Len(s) |-> toLowerChar(s[i]) ]

Max(a, b) == IF a >= b THEN a ELSE b
Min(a, b) == IF a <= b THEN a ELSE b

\* s.slice(from - 1): the text from position `from` on
From(s, from) == SubSeq(s, from, Len(s))

\* title: the first character upper-cased
title(s) == IF s = << >> THEN s ELSE << toUpperChar(s[1]) >> \o Tail(s)
\* lc
lc(s) == toLowerCase(s)

MinOf(S) == CHOOSE x \in S : \A y \in S : x <= y
MaxOf(S) == CHOOSE x \in S : \A y \in S : x >= y

\* the length of the run of characters of class C that starts at position i
RunLen(t, i, C) ==
    IF i > Len(t) \/ t[i] \notin C THEN 0
    ELSE LET stop == { j \in i..Len(t) : t[j] \notin C }
         IN  IF stop = { } THEN Len(t) - i + 1 ELSE MinOf(stop) - i

\* the length of the run of characters outside C that starts at position i
RunLenNot(t, i, C) ==
    IF i > Len(t) \/ t[i] \in C THEN 0
    ELSE LET stop == { j \in i..Len(t) : t[j] \in C }
         IN  IF stop = { } THEN Len(t) - i + 1 ELSE MinOf(stop) - i

\* String.prototype.trim
trimStart(s) == From(s, RunLen(s, 1, Space) + 1)
trimEnd(s) ==
    LET ns == { j \in 1..Len(s) : s[j] \notin Space }
    IN  IF ns = { } THEN << >> ELSE SubSeq(s, 1, MaxOf(ns))
trim(s) == trimEnd(trimStart(s))

\* \b before position i (i = Len(t)+1: at the end of the text)
IsW(t, i) == i >= 1 /\ i <= Len(t) /\ t[i] \in WordChar
Boundary(t, i) == IsW(t, i - 1) # IsW(t, i)

\* the literal w (lower case) matches t at position i; ci: the i flag
LitAt(t, i, w, ci) ==
    /\ i >= 1
    /\ i + Len(w) - 1 <= Len(t)
    /\ \A k \in 1..Len(w) :
          IF ci THEN toLowerChar(t[i + k - 1]) = toLowerChar(w[k])
          ELSE t[i + k - 1] = w[k]

\* the concatenation of a sequence of texts, sep between them (Array.join)
RECURSIVE join(_, _)
join(ss, sep) ==
    IF ss = << >> THEN << >>
    ELSE IF Len(ss) = 1 THEN ss[1]
    ELSE ss[1] \o sep \o join(Tail(ss), sep)

\* all texts of at most n characters of A
TextsUpTo(A, n) == UNION { [1..k -> A] : k \in 0..n }

(***************************************************************************)
(* Regular-expression replacement                                          *)
(*                                                                         *)
(* A pattern is an operator M(t, i): the last position of its match that   *)
(* starts at position i of t, or 0 when it does not match there.           *)
(***************************************************************************)
\* every << first, last >> at which the pattern matches
MatchEnds(t, M(_, _)) ==
    { p \in { << i, M(t, i) >> : i \in 1..Len(t) } : p[2] # 0 }

\* the matches of a g-flag pattern: leftmost first, the search resuming after
\* each match
RECURSIVE Scan(_, _)
Scan(ends, i) ==
    LET nx == { p \in ends : p[1] >= i }
    IN  IF nx = { } THEN << >>
        ELSE LET m == CHOOSE p \in nx : \A q \in nx : p[1] <= q[1]
             IN  << m >> \o Scan(ends, m[2] + 1)

Matches(t, M(_, _)) == Scan(MatchEnds(t, M), 1)

\* the first match only (no g flag), as a sequence of at most one match
FirstMatch(t, M(_, _)) ==
    LET ms == Matches(t, M) IN IF ms = << >> THEN << >> ELSE << ms[1] >>

\* t with each edit << first, last, replacement >> applied; pos: the position
\* after the previous edit
RECURSIVE ApplyEdits(_, _, _, _)
ApplyEdits(t, edits, k, pos) ==
    IF k > Len(edits) THEN From(t, pos)
    ELSE SubSeq(t, pos, edits[k][1] - 1) \o edits[k][3]
            \o ApplyEdits(t, edits, k + 1, edits[k][2] + 1)

\* t.replace(/M/g, R): R(t, first, last) is the replacement of a match
ReplaceAll(t, M(_, _), R(_, _, _)) ==
    LET ms == Matches(t, M)
    IN  IF ms = << >> THEN t
        ELSE ApplyEdits(t, [ k \in 1..Len(ms) |->
                               << ms[k][1], ms[k][2], R(t, ms[k][1], ms[k][2]) >> ], 1, 1)

\* /\bw\b/i at position i
WholeWordAt(t, i, w) ==
    IF Boundary(t, i) /\ LitAt(t, i, w, TRUE) /\ Boundary(t, i + Len(w))
    THEN i + Len(w) - 1 ELSE 0

\* one of the words ws (tried in order) between \b and \b, the i flag set
RECURSIVE AnyWordAt(_, _, _, _)
AnyWordAt(t, i, ws, k) ==
    IF k > Len(ws) THEN 0
    ELSE IF WholeWordAt(t, i, ws[k]) # 0 THEN WholeWordAt(t, i, ws[k])
    ELSE AnyWordAt(t, i, ws, k + 1)

(***************************************************************************)
(* Basic helpers                                                           *)
(***************************************************************************)
\* WORD_RE = /[A-Za-z0-9][A-Za-z0-9'-]*/g
TokStart == AlNum
TokCont == AlNum \cup { "'", "-" }

NoMatch == << 0, 0 >>
\* the next WORD_RE match at or after position i: << first, last >>
WORD_RE(t, i) ==
    LET st == { j \in i..Len(t) : t[j] \in TokStart }
    IN  IF st = { } THEN NoMatch
        ELSE << MinOf(st), MinOf(st) + RunLen(t, MinOf(st) + 1, TokCont) >>

\* WORD_RE at position i
TokAt(t, i) == IF t[i] \in TokStart THEN i + RunLen(t, i + 1, TokCont) ELSE 0

\* text.match(WORD_RE) || []: the matches from position i on, in order
wordMatches(t, i) == Scan(MatchEnds(t, TokAt), i)

tokens(t) ==
    LET ms == wordMatches(t, 1)
    IN  [ k \in 1..Len(ms) |-> SubSeq(t, ms[k][1], ms[k][2]) ]

wordCount(text) == Len(wordMatches(text, 1))

\* the loop of capToWords: << count, lastEnd >> when it ends
RECURSIVE capLoop(_, _, _, _, _)
capLoop(text, from, count, lastEnd, maxWords) ==
    LET m == WORD_RE(text, from)
    IN  IF m = NoMatch THEN << count, lastEnd >>
        ELSE IF count + 1 >= maxWords THEN << count + 1, m[2] >>
        ELSE capLoop(text, m[2] + 1, count + 1, m[2], maxWords)

\* a cut one character short of the match's end
capToWordsShort(text, maxWords) ==
    IF text = << >> THEN << >>
    ELSE LET r == capLoop(text, 1, 0, 0, maxWords)
         IN  IF r[1] < maxWords THEN text ELSE SubSeq(text, 1, r[2] - 1)

capToWords(text, maxWords) ==
    IF text = << >> THEN << >>
    ELSE LET r == capLoop(text, 1, 0, 0, maxWords)
         IN  IF r[1] < maxWords THEN text ELSE SubSeq(text, 1, r[2])


(***************************************************************************)
(* Linguistic data                                                         *)
(***************************************************************************)
STOP ==
    {
      <<"t","h","e">>, <<"a">>, <<"a","n">>, <<"a","n","d">>, <<"o","r">>, <<"b","u","t">>,
      <<"i","f">>, <<"t","h","e","n">>, <<"w","h","e","n">>, <<"w","h","i","l","e">>, <<"o","f">>,
      <<"t","o">>, <<"i","n">>, <<"o","n">>, <<"f","o","r">>, <<"a","s">>, <<"b","y">>,
      <<"a","t">>, <<"f","r","o","m">>, <<"w","i","t","h">>, <<"a","b","o","u","t">>,
      <<"i","n","t","o">>, <<"o","v","e","r">>, <<"a","f","t","e","r">>,
      <<"b","e","f","o","r","e">>, <<"b","e","t","w","e","e","n">>,
      <<"t","h","r","o","u","g","h">>, <<"d","u","r","i","n","g">>, <<"a","b","o","v","e">>,
      <<"b","e","l","o","w">>, <<"u","p">>, <<"d","o","w","n">>, <<"o","u","t">>, <<"o","f","f">>,
      <<"a","g","a","i","n">>, <<"f","u","r","t","h","e","r">>, <<"h","e","r","e">>,
      <<"t","h","e","r","e">>, <<"a","l","l">>, <<"a","n","y">>, <<"b","o","t","h">>,
      <<"e","a","c","h">>, <<"f","e","w">>, <<"m","o","r","e">>, <<"m","o","s","t">>,
      <<"o","t","h","e","r">>, <<"s","o","m","e">>, <<"s","u","c","h">>, <<"n","o">>,
      <<"n","o","r">>, <<"n","o","t">>, <<"o","n","l","y">>, <<"o","w","n">>, <<"s","a","m","e">>,
      <<"s","o">>, <<"t","h","a","n">>, <<"t","o","o">>, <<"v","e","r","y">>, <<"c","a","n">>,
      <<"w","i","l","l">>, <<"j","u","s","t">>, <<"s","h","o","u","l","d">>, <<"n","o","w">>,
      <<"i","s">>, <<"a","m">>, <<"a","r","e">>, <<"w","a","s">>, <<"w","e","r","e">>, <<"b","e">>,
      <<"b","e","e","n">>, <<"b","e","i","n","g">>, <<"i","t">>, <<"i","t","s">>,
      <<"t","h","e","y">>, <<"t","h","e","m">>, <<"t","h","e","i","r">>, <<"w","e">>,
      <<"o","u","r">>, <<"y","o","u">>, <<"y","o","u","r">>, <<"i">>, <<"h","e">>, <<"h","i","m">>,
      <<"h","i","s">>, <<"s","h","e">>, <<"h","e","r">>, <<"h","e","r","s">>, <<"t","h","i","s">>,
      <<"t","h","a","t">>, <<"t","h","e","s","e">>, <<"t","h","o","s","e">>
    }

STOCK_OPENERS ==
    <<
      <<"i","n"," ","c","o","n","c","l","u","s","i","o","n">>,
      <<"i","n"," ","s","u","m","m","a","r","y">>, <<"i","n"," ","a","d","d","i","t","i","o","n">>,
      <<"m","o","r","e","o","v","e","r">>, <<"f","u","r","t","h","e","r","m","o","r","e">>,
      <<"o","v","e","r","a","l","l">>, <<"t","o"," ","c","o","n","c","l","u","d","e">>,
      <<"t","o"," ","s","u","m","m","a","r","i","z","e">>,
      <<"a","d","d","i","t","i","o","n","a","l","l","y">>,
      <<"a","s"," ","a"," ","r","e","s","u","l","t">>, <<"t","h","e","r","e","f","o","r","e">>,
      <<"h","o","w","e","v","e","r">>
    >>

SIMPLE ==
    <<
      << <<"a","p","p","r","o","x","i","m","a","t","e","l","y">>, <<"a","b","o","u","t">> >>,
      << <<"n","u","m","e","r","o","u","s">>, <<"m","a","n","y">> >>,
      << <<"s","u","f","f","i","c","i","e","n","t">>, <<"e","n","o","u","g","h">> >>,
      << <<"f","a","c","i","l","i","t","a","t","e">>, <<"h","e","l","p">> >>,
      << <<"s","u","b","s","e","q","u","e","n","t","l","y">>, <<"l","a","t","e","r">> >>,
      << <<"p","r","i","o","r">>, <<"b","e","f","o","r","e">> >>,
      << <<"s","u","b","s","e","q","u","e","n","t">>, <<"a","f","t","e","r">> >>,
      << <<"a","c","q","u","i","r","e">>, <<"g","e","t">> >>,
      << <<"p","u","r","c","h","a","s","e">>, <<"b","u","y">> >>,
      << <<"d","e","m","o","n","s","t","r","a","t","e">>, <<"s","h","o","w">> >>,
      << <<"u","t","i","l","i","z","e">>, <<"u","s","e">> >>,
      << <<"c","o","m","m","e","n","c","e">>, <<"b","e","g","i","n">> >>,
      << <<"c","o","n","c","l","u","d","e">>, <<"f","i","n","i","s","h">> >>,
      << <<"o","b","j","e","c","t","i","v","e">>, <<"g","o","a","l">> >>,
      << <<"o","b","j","e","c","t","i","v","e","s">>, <<"g","o","a","l","s">> >>,
      << <<"m","e","t","h","o","d","o","l","o","g","y">>, <<"m","e","t","h","o","d">> >>,
      << <<"m","e","t","h","o","d","o","l","o","g","i","e","s">>, <<"m","e","t","h","o","d","s">> >>,
      << <<"e","n","d","e","a","v","o","r">>, <<"e","f","f","o","r","t">> >>,
      << <<"a","t","t","e","m","p","t">>, <<"t","r","y">> >>,
      << <<"t","h","e","r","e","f","o","r","e">>, <<"s","o">> >>,
      << <<"h","o","w","e","v","e","r">>, <<"b","u","t">> >>,
      << <<"m","o","r","e","o","v","e","r">>, <<"a","l","s","o">> >>,
      << <<"f","u","r","t","h","e","r","m","o","r","e">>, <<"a","l","s","o">> >>,
      << <<"c","o","n","s","e","q","u","e","n","t","l","y">>, <<"s","o">> >>,
      << <<"r","e","g","a","r","d","i","n","g">>, <<"a","b","o","u","t">> >>,
      << <<"o","b","t","a","i","n">>, <<"g","e","t">> >>,
      << <<"a","s","s","i","s","t">>, <<"h","e","l","p">> >>,
      << <<"m","a","i","n","t","a","i","n">>, <<"k","e","e","p">> >>,
      << <<"e","n","s","u","r","e">>, <<"m","a","k","e"," ","s","u","r","e">> >>,
      << <<"f","a","v","o","r","a","b","l","e">>, <<"g","o","o","d">> >>,
      << <<"f","e","a","s","i","b","l","e">>, <<"p","o","s","s","i","b","l","e">> >>,
      << <<"l","e","v","e","r","a","g","e">>, <<"u","s","e">> >>,
      << <<"i","n","d","i","c","a","t","e","s">>, <<"s","h","o","w","s">> >>,
      << <<"i","l","l","u","s","t","r","a","t","e">>, <<"s","h","o","w">> >>,
      << <<"a","f","o","r","e","m","e","n","t","i","o","n","e","d">>, <<"m","e","n","t","i","o","n","e","d">> >>,
      << <<"o","p","t","i","m","a","l">>, <<"b","e","s","t"," ","p","o","s","s","i","b","l","e">> >>,
      << <<"p","a","r","a","m","o","u","n","t">>, <<"m","o","s","t"," ","i","m","p","o","r","t","a","n","t">> >>,
      << <<"a","s","c","e","r","t","a","i","n">>, <<"f","i","n","d"," ","o","u","t">> >>,
      << <<"m","i","t","i","g","a","t","e">>, <<"r","e","d","u","c","e">> >>,
      << <<"e","x","p","l","i","c","a","t","e">>, <<"e","x","p","l","a","i","n">> >>,
      << <<"e","x","p","l","i","c","a","t","e","s">>, <<"e","x","p","l","a","i","n","s">> >>,
      << <<"e","x","p","l","i","c","a","t","e","d">>, <<"e","x","p","l","a","i","n","e","d">> >>,
      << <<"c","o","m","p","r","e","h","e","n","s","i","o","n">>, <<"u","n","d","e","r","s","t","a","n","d","i","n","g">> >>,
      << <<"i","n","d","i","v","i","d","u","a","l","s">>, <<"p","e","o","p","l","e">> >>,
      << <<"c","o","m","p","o","n","e","n","t","s">>, <<"p","a","r","t","s">> >>,
      << <<"i","m","p","l","e","m","e","n","t","a","t","i","o","n">>, <<"a","p","p","l","i","c","a","t","i","o","n">> >>,
      << <<"i","m","p","l","e","m","e","n","t">>, <<"a","p","p","l","y">> >>,
      << <<"p","r","i","o","r","i","t","i","z","e">>, <<"f","o","c","u","s"," ","o","n">> >>,
      << <<"a","d","e","q","u","a","t","e">>, <<"e","n","o","u","g","h">> >>,
      << <<"i","n","s","u","f","f","i","c","i","e","n","t">>, <<"n","o","t"," ","e","n","o","u","g","h">> >>,
      << <<"n","e","v","e","r","t","h","e","l","e","s","s">>, <<"e","v","e","n"," ","s","o">> >>,
      << <<"n","o","t","w","i","t","h","s","t","a","n","d","i","n","g">>, <<"d","e","s","p","i","t","e">> >>,
      << <<"c","o","n","s","e","q","u","e","n","t","l","y","_">>, <<"s","o">> >>
    >>

SYN ==
    <<
      << <<"i","m","p","o","r","t","a","n","t">>, << <<"c","r","u","c","i","a","l">>, <<"v","i","t","a","l">>, <<"e","s","s","e","n","t","i","a","l">>, <<"s","i","g","n","i","f","i","c","a","n","t">>, <<"k","e","y">> >> >>,
      << <<"a","d","v","a","n","t","a","g","e">>, << <<"b","e","n","e","f","i","t">>, <<"u","p","s","i","d","e">>, <<"p","l","u","s">> >> >>,
      << <<"d","i","s","a","d","v","a","n","t","a","g","e">>, << <<"d","r","a","w","b","a","c","k">>, <<"d","o","w","n","s","i","d","e">>, <<"l","i","m","i","t","a","t","i","o","n">> >> >>,
      << <<"i","m","p","a","c","t">>, << <<"e","f","f","e","c","t">>, <<"i","n","f","l","u","e","n","c","e">>, <<"r","e","a","c","h">> >> >>,
      << <<"i","m","p","r","o","v","e">>, << <<"e","n","h","a","n","c","e">>, <<"b","o","o","s","t">>, <<"s","t","r","e","n","g","t","h","e","n">>, <<"r","e","f","i","n","e">> >> >>,
      << <<"i","m","p","r","o","v","e","m","e","n","t">>, << <<"e","n","h","a","n","c","e","m","e","n","t">>, <<"g","a","i","n">>, <<"u","p","g","r","a","d","e">>, <<"a","d","v","a","n","c","e">> >> >>,
      << <<"s","h","o","w">>, << <<"r","e","v","e","a","l">>, <<"i","n","d","i","c","a","t","e">>, <<"d","e","m","o","n","s","t","r","a","t","e">>, <<"d","i","s","p","l","a","y">>, <<"e","x","h","i","b","i","t">> >> >>,
      << <<"r","e","s","u","l","t">>, << <<"o","u","t","c","o","m","e">>, <<"e","f","f","e","c","t">>, <<"c","o","n","s","e","q","u","e","n","c","e">>, <<"u","p","s","h","o","t">> >> >>,
      << <<"i","s","s","u","e">>, << <<"p","r","o","b","l","e","m">>, <<"c","h","a","l","l","e","n","g","e">>, <<"c","o","n","c","e","r","n">>, <<"d","i","f","f","i","c","u","l","t","y">> >> >>,
      << <<"h","e","l","p">>, << <<"a","i","d">>, <<"a","s","s","i","s","t">>, <<"s","u","p","p","o","r","t">>, <<"e","n","a","b","l","e">> >> >>,
      << <<"b","u","i","l","d">>, << <<"c","r","e","a","t","e">>, <<"d","e","v","e","l","o","p">>, <<"c","o","n","s","t","r","u","c","t">>, <<"f","o","r","m">> >> >>,
      << <<"c","r","e","a","t","e">>, << <<"b","u","i","l","d">>, <<"p","r","o","d","u","c","e">>, <<"c","r","a","f","t">>, <<"f","o","r","m">> >> >>,
      << <<"u","s","e">>, << <<"a","p","p","l","y">>, <<"e","m","p","l","o","y">> >> >>,
      << <<"c","l","e","a","r">>, << <<"e","v","i","d","e","n","t">>, <<"a","p","p","a","r","e","n","t">>, <<"p","l","a","i","n">>, <<"o","b","v","i","o","u","s">> >> >>,
      << <<"c","h","o","o","s","e">>, << <<"s","e","l","e","c","t">>, <<"p","i","c","k">>, <<"o","p","t"," ","f","o","r">>, <<"d","e","c","i","d","e"," ","o","n">> >> >>,
      << <<"c","o","m","p","l","e","x">>, << <<"c","o","m","p","l","i","c","a","t","e","d">>, <<"i","n","t","r","i","c","a","t","e">>, <<"m","u","l","t","i","-","l","a","y","e","r","e","d">> >> >>,
      << <<"s","i","m","p","l","e">>, << <<"s","t","r","a","i","g","h","t","f","o","r","w","a","r","d">>, <<"b","a","s","i","c">>, <<"p","l","a","i","n">> >> >>,
      << <<"c","o","m","m","o","n">>, << <<"t","y","p","i","c","a","l">>, <<"u","s","u","a","l">>, <<"f","r","e","q","u","e","n","t">>, <<"w","i","d","e","s","p","r","e","a","d">> >> >>,
      << <<"r","a","r","e">>, << <<"u","n","c","o","m","m","o","n">>, <<"i","n","f","r","e","q","u","e","n","t">>, <<"s","c","a","r","c","e">> >> >>,
      << <<"b","e","g","i","n">>, << <<"s","t","a","r","t">>, <<"k","i","c","k"," ","o","f","f">> >> >>,
      << <<"e","n","d">>, << <<"f","i","n","i","s","h">>, <<"w","r","a","p"," ","u","p">>, <<"c","o","n","c","l","u","d","e">> >> >>,
      << <<"e","x","p","l","a","i","n">>, << <<"c","l","a","r","i","f","y">>, <<"b","r","e","a","k"," ","d","o","w","n">>, <<"u","n","p","a","c","k">> >> >>,
      << <<"r","e","a","s","o","n">>, << <<"c","a","u","s","e">>, <<"b","a","s","i","s">>, <<"g","r","o","u","n","d">> >> >>,
      << <<"e","v","i","d","e","n","c","e">>, << <<"p","r","o","o","f">>, <<"s","u","p","p","o","r","t">>, <<"d","o","c","u","m","e","n","t","a","t","i","o","n">> >> >>,
      << <<"g","o","a","l">>, << <<"a","i","m">>, <<"p","u","r","p","o","s","e">>, <<"t","a","r","g","e","t">>, <<"o","b","j","e","c","t","i","v","e">> >> >>,
      << <<"c","h","a","n","g","e">>, << <<"a","l","t","e","r">>, <<"m","o","d","i","f","y">>, <<"s","h","i","f","t">>, <<"a","d","j","u","s","t">> >> >>,
      << <<"e","f","f","e","c","t","i","v","e">>, << <<"w","o","r","k","a","b","l","e">>, <<"p","r","a","c","t","i","c","a","l">>, <<"e","f","f","i","c","i","e","n","t">> >> >>,
      << <<"e","f","f","i","c","i","e","n","t">>, << <<"e","f","f","e","c","t","i","v","e">>, <<"p","r","o","d","u","c","t","i","v","e">> >> >>,
      << <<"a","n","a","l","y","z","e">>, << <<"e","x","a","m","i","n","e">>, <<"s","t","u","d","y">>, <<"i","n","s","p","e","c","t">>, <<"e","v","a","l","u","a","t","e">> >> >>,
      << <<"a","r","g","u","e">>, << <<"c","o","n","t","e","n","d">>, <<"m","a","i","n","t","a","i","n">>, <<"c","l","a","i","m">>, <<"a","s","s","e","r","t">> >> >>,
      << <<"b","e","c","a","u","s","e">>, << <<"s","i","n","c","e">> >> >>,
      << <<"i","m","p","o","r","t","a","n","t","y">>, << <<"c","r","u","c","i","a","l","l","y">> >> >>
    >>

PHRASE_SWAPS ==
    <<
      << <<"i","n"," ","o","r","d","e","r"," ","t","o">>, <<"t","o">> >>,
      << <<"d","u","e"," ","t","o"," ","t","h","e"," ","f","a","c","t"," ","t","h","a","t">>, <<"b","e","c","a","u","s","e">> >>,
      << <<"i","t"," ","i","s"," ","i","m","p","o","r","t","a","n","t"," ","t","o"," ","n","o","t","e"," ","t","h","a","t">>, <<"n","o","t","e"," ","t","h","a","t">> >>,
      << <<"i","t"," ","s","h","o","u","l","d"," ","b","e"," ","n","o","t","e","d"," ","t","h","a","t">>, <<"n","o","t","e"," ","t","h","a","t">> >>,
      << <<"p","l","a","y","s"," ","a"," ","s","i","g","n","i","f","i","c","a","n","t"," ","r","o","l","e"," ","i","n">>, <<"m","a","t","t","e","r","s"," ","f","o","r">> >>,
      << <<"i","n"," ","t","h","e"," ","c","o","n","t","e","x","t"," ","o","f">>, <<"i","n">> >>,
      << <<"w","i","t","h"," ","r","e","s","p","e","c","t"," ","t","o">>, <<"a","b","o","u","t">> >>,
      << <<"a","s"," ","a"," ","r","e","s","u","l","t">>, <<"s","o">> >>,
      << <<"b","y"," ","m","e","a","n","s"," ","o","f">>, <<"w","i","t","h">> >>,
      << <<"i","n"," ","l","i","g","h","t"," ","o","f">>, <<"c","o","n","s","i","d","e","r","i","n","g">> >>,
      << <<"a"," ","w","i","d","e"," ","r","a","n","g","e"," ","o","f">>, <<"m","a","n","y">> >>
    >>

HEDGES ==
    <<
      << <<"a","l","w","a","y","s">>, <<"o","f","t","e","n">> >>,
      << <<"n","e","v","e","r">>, <<"r","a","r","e","l","y">> >>,
      << <<"p","r","o","v","e","s">>, <<"s","u","g","g","e","s","t","s">> >>,
      << <<"p","e","r","f","e","c","t">>, <<"g","r","e","a","t">> >>,
      << <<"f","l","a","w","l","e","s","s">>, <<"s","t","r","o","n","g">> >>,
      << <<"u","n","d","e","n","i","a","b","l","e">>, <<"c","l","e","a","r">> >>,
      << <<"i","m","p","o","s","s","i","b","l","e">>, <<"v","e","r","y"," ","u","n","l","i","k","e","l","y">> >>
    >>

(***************************************************************************)
(* Text utilities                                                          *)
(***************************************************************************)
\* /^([A-Z][a-z]+)$/
IsCapitalized(w) ==
    /\ Len(w) >= 2
    /\ w[1] \in Upper
    /\ \A k \in 2..Len(w) : w[k] \in Lower

isSafeToken(w) ==
    /\ ~ \E k \in 1..Len(w) : w[k] \in Digit \cup { "/", "@", ":", "_", "#", "%" }
    /\ ~ IsCapitalized(w)
    /\ toLowerCase(w) \notin STOP

\* t.replace(/\r\n/g, "\n")
CrLfAt(t, i) == IF LitAt(t, i, << "\r", "\n" >>, FALSE) THEN i + 1 ELSE 0

\* /\n{2,}/ at position i
BlankAt(t, i) ==
    LET n == RunLen(t, i, { "\n" }) IN IF n >= 2 THEN i + n - 1 ELSE 0

\* String.prototype.split at the separators seps, a sequence of
\* << first, last >>: the pieces between them
split(t, seps) ==
    [ k \in 1..(Len(seps) + 1) |->
        SubSeq(t, IF k = 1 THEN 1 ELSE seps[k - 1][2] + 1,
                  IF k > Len(seps) THEN Len(t) ELSE seps[k][1] - 1) ]

splitParagraphs(t) ==
    LET u == ReplaceAll(t, CrLfAt, LAMBDA tt, s, e : << "\n" >>)
    IN  split(u, Matches(u, BlankAt))

joinParagraphs(p) == join(p, << "\n", "\n" >>)

\* /\s+/ at position i
SpacesAt(t, i) ==
    LET n == RunLen(t, i, Space) IN IF n >= 1 THEN i + n - 1 ELSE 0

\* /([.!?]+)\s+/ at position i
TermSpaceAt(t, i) ==
    LET n == RunLen(t, i, Terminator)
        w == RunLen(t, i + n, Space)
    IN  IF n >= 1 /\ w >= 1 THEN i + n + w - 1 ELSE 0

splitSentences(p) ==
    LET q == ReplaceAll(p, SpacesAt, LAMBDA tt, s, e : << " " >>)
        seps == Matches(q, TermSpaceAt)
        pieces == split(q, seps)
        \* the reduce: each piece with the punctuation captured after it
        acc == [ k \in 1..Len(pieces) |->
                   trim(pieces[k]
                        \o (IF k <= Len(seps)
                            THEN SubSeq(q, seps[k][1],
                                        seps[k][1] + RunLen(q, seps[k][1], Terminator) - 1)
                            ELSE << >>)) ]
        parts == SelectSeq(acc, LAMBDA x : x # << >>)
    IN  IF parts # << >> THEN parts ELSE << trim(p) >>

joinSentences(ss) == join(ss, << " " >>)

\* /\s+([.,!?;:])/ at position i
SpaceBeforePunctAt(t, i) ==
    LET n == RunLen(t, i, Space)
    IN  IF n >= 1 /\ i + n <= Len(t) /\ t[i + n] \in { ".", ",", "!", "?", ";", ":" }
        THEN i + n ELSE 0

\* /\s{2,}/ at position i
TwoSpacesAt(t, i) ==
    LET n == RunLen(t, i, Space) IN IF n >= 2 THEN i + n - 1 ELSE 0

\* /(^|[.!?]\s+)([a-z])/ at position i
SentenceStartAt(t, i) ==
    IF i = 1 /\ t[1] \in Lower THEN 1
    ELSE IF t[i] \in Terminator
    THEN LET n == RunLen(t, i + 1, Space)
         IN  IF n >= 1 /\ i + n + 1 <= Len(t) /\ t[i + n + 1] \in Lower
             THEN i + n + 1 ELSE 0
    ELSE 0

\* tidy without its second replace
tidyKeepRuns(text) ==
    LET a == ReplaceAll(text, SpaceBeforePunctAt, LAMBDA tt, s, e : << tt[e] >>)
        c == ReplaceAll(a, SentenceStartAt,
                        LAMBDA tt, s, e : SubSeq(tt, s, e - 1) \o << toUpperChar(tt[e]) >>)
    IN  trim(c)

tidy(text) ==
    LET a == ReplaceAll(text, SpaceBeforePunctAt, LAMBDA tt, s, e : << tt[e] >>)
        b == ReplaceAll(a, TwoSpacesAt, LAMBDA tt, s, e : << " " >>)
        c == ReplaceAll(b, SentenceStartAt,
                        LAMBDA tt, s, e : SubSeq(tt, s, e - 1) \o << toUpperChar(tt[e]) >>)
    IN  trim(c)

(***************************************************************************)
(* Randomness                                                              *)
(*                                                                         *)
(* creativity is kept in hundredths (the slider's 0.95 is 95), and a       *)
(* probability in ten-thousandths.                                         *)
(***************************************************************************)
\* clamp01, on ten-thousandths
clamp01(x) == Max(0, Min(10000, x))

\* chance(p): the values Math.random() < clamp01(p) can take, Math.random()
\* being any number of [0, 1)
chance(p) ==
    { b \in BOOLEAN : (b => clamp01(p) > 0) /\ (~b => clamp01(p) < 10000) }

\* the sequences whose k-th element is drawn from sets[k]
RECURSIVE SeqProduct(_)
SeqProduct(sets) ==
    IF sets = << >> THEN { << >> }
    ELSE { << x >> \o r : x \in sets[1], r \in SeqProduct(Tail(sets)) }

(***************************************************************************)
(* Paraphrase building blocks: 1) lexical                                  *)
(***************************************************************************)
\* one key of SIMPLE: t.replace(new RegExp(`\\b${k}\\b`, "ig"), ...)
simplifyKey(t, kv) ==
    ReplaceAll(t, LAMBDA tt, i : WholeWordAt(tt, i, kv[1]),
               LAMBDA tt, s, e :
                   IF tt[s] = toUpperChar(tt[s]) THEN title(kv[2]) ELSE kv[2])

\* the loop over Object.entries(SIMPLE) from key k on (the test on u has u
\* evaluated before the next key is taken up)
RECURSIVE simplifyFrom(_, _)
simplifyFrom(t, k) ==
    IF k > Len(SIMPLE) THEN t
    ELSE LET u == simplifyKey(t, SIMPLE[k])
         IN  IF Len(u) >= 0 THEN simplifyFrom(u, k + 1) ELSE u

simplifyWords(text) == simplifyFrom(text, 1)

\* /phrase\b/gi at position i
PhraseAt(t, i, p) ==
    IF LitAt(t, i, p, TRUE) /\ Boundary(t, i + Len(p)) THEN i + Len(p) - 1 ELSE 0

\* the loop over PHRASE_SWAPS from entry k on
RECURSIVE swapFrom(_, _)
swapFrom(t, k) ==
    IF k > Len(PHRASE_SWAPS) THEN t
    ELSE LET u == ReplaceAll(t, LAMBDA tt, i : PhraseAt(tt, i, PHRASE_SWAPS[k][1]),
                             LAMBDA tt, s, e : PHRASE_SWAPS[k][2])
         IN  IF Len(u) >= 0 THEN swapFrom(u, k + 1) ELSE u

swapPhrases(text) == swapFrom(text, 1)

\* /\b([A-Za-z][A-Za-z'-]{1,})\b/ at position i: the longest run that ends
\* at a word boundary
SynAt(t, i) ==
    IF Boundary(t, i) /\ t[i] \in Letter
    THEN LET n == RunLen(t, i + 1, Letter \cup { "'", "-" })
             ok == { j \in 1..n : Boundary(t, i + j + 1) }
         IN  IF ok = { } THEN 0 ELSE i + MaxOf(ok)
    ELSE 0

\* SYN[lower], << >> when SYN has no such key (the inherited property
\* `constructor` is the one other key a lower-case word can hit; the model's
\* vocabulary does not hold it)
SynOptions(lower) ==
    LET ks == { k \in 1..Len(SYN) : SYN[k][1] = lower }
    IN  IF ks = { } THEN << >> ELSE SYN[CHOOSE k \in ks : TRUE][2]

\* prob of applySynonyms, in ten-thousandths
synProb(creativity) == 7200 + 25 * (clamp01(creativity * 100) \div 100)

\* the callback of applySynonyms: what a match can be replaced by
synCallback(raw, creativity) ==
    LET options == SynOptions(toLowerCase(raw))
        cased(pick) ==
            IF raw = toUpperCase(raw) THEN toUpperCase(pick)
            ELSE IF raw[1] = toUpperChar(raw[1]) THEN title(pick)
            ELSE pick
    IN  IF ~ isSafeToken(raw) THEN { raw }
        ELSE IF options = << >> THEN { raw }
        ELSE { raw : b \in chance(synProb(creativity)) \ { TRUE } }
               \cup { cased(options[k]) : k \in 1..Len(options),
                                          b \in chance(synProb(creativity)) \ { FALSE } }

\* the edits applySynonyms can make: one << first, last, replacement >> per
\* match
applySynonymsEdits(text, creativity) ==
    LET ms == Matches(text, SynAt)
    IN  SeqProduct([ k \in 1..Len(ms) |->
            { << ms[k][1], ms[k][2], r >> :
                r \in synCallback(SubSeq(text, ms[k][1], ms[k][2]), creativity) } ])

applySynonyms(text, creativity) ==
    { ApplyEdits(text, ed, 1, 1) : ed \in applySynonymsEdits(text, creativity) }

(***************************************************************************)
(* 2) structure                                                            *)
(***************************************************************************)
FILLER_VERBS ==
    << <<"s","a","y">>, <<"s","a","y","s">>, <<"s","a","i","d">>,
       <<"b","e","l","i","e","v","e">>, <<"b","e","l","i","e","v","e","s">>,
       <<"b","e","l","i","e","v","e","d">>, <<"t","h","i","n","k">>,
       <<"t","h","i","n","k","s">>, <<"t","h","o","u","g","h","t">>,
       <<"f","e","e","l">>, <<"f","e","e","l","s">>, <<"f","e","l","t">>,
       <<"a","r","g","u","e">>, <<"a","r","g","u","e","s">>, <<"a","r","g","u","e","d">>,
       <<"n","o","t","e">>, <<"n","o","t","e","s">>, <<"n","o","t","e","d">> >>

THAT == <<"t","h","a","t">>

\* /\b(verb)\s+that\b/i at position i, for one verb
VerbThatAt(t, i, v) ==
    LET n == RunLen(t, i + Len(v), Space)
        q == i + Len(v) + n
    IN  IF /\ Boundary(t, i)
           /\ LitAt(t, i, v, TRUE)
           /\ n >= 1
           /\ LitAt(t, q, THAT, TRUE)
           /\ Boundary(t, q + 4)
        THEN q + 3 ELSE 0

RECURSIVE FillerThatFrom(_, _, _)
FillerThatFrom(t, i, k) ==
    IF k > Len(FILLER_VERBS) THEN 0
    ELSE IF VerbThatAt(t, i, FILLER_VERBS[k]) # 0 THEN VerbThatAt(t, i, FILLER_VERBS[k])
    ELSE FillerThatFrom(t, i, k + 1)

FillerThatAt(t, i) == FillerThatFrom(t, i, 1)

\* dropFillerThat applied whatever the intensity
dropFillerThatAlways(text, intensity) ==
    ReplaceAll(text, FillerThatAt, LAMBDA tt, s, e : trimEnd(SubSeq(tt, s, e - 4)))

\* m.replace(/\s+that$/i, ""): the match without its last four characters
\* and the white space before them
dropFillerThat(text, intensity) ==
    IF intensity > 0
    THEN ReplaceAll(text, FillerThatAt, LAMBDA tt, s, e : trimEnd(SubSeq(tt, s, e - 4)))
    ELSE text

BE_WORDS ==
    << <<"w","a","s">>, <<"w","e","r","e">>, <<"i","s">>, <<"a","r","e">>,
       <<"b","e","e","n">>, <<"b","e","i","n","g">> >>

\* [A-Z][\w-]*(?:\s+[A-Z][\w-]*)*, greedy, from position a (an upper-case
\* letter): the last position taken
RECURSIVE AgentGreedy(_, _)
AgentGreedy(t, a) ==
    LET e == a + RunLen(t, a + 1, WordChar \cup { "-" })
        w == RunLen(t, e + 1, Space)
    IN  IF w >= 1 /\ e + w + 1 <= Len(t) /\ t[e + w + 1] \in Upper
        THEN AgentGreedy(t, e + w + 1) ELSE e

\* the agent's last position once the \b after it holds: the hyphens a
\* greedy match ends in are given back
RECURSIVE GiveBackHyphens(_, _)
GiveBackHyphens(t, e) ==
    IF t[e] = "-" THEN GiveBackHyphens(t, e - 1) ELSE e

\* the parts of a passiveToActive match at position i with BE_WORDS[k]:
\* ok, verb << first, last >>, agent << first, last >>
PassiveParts(t, i, k) ==
    LET be == BE_WORDS[k]
        n1 == RunLen(t, i + Len(be), Space)
        v  == i + Len(be) + n1
        lv == RunLen(t, v, WordChar)
        n2 == RunLen(t, v + lv, Space)
        by == v + lv + n2
        n3 == RunLen(t, by + 2, Space)
        a  == by + 2 + n3
    IN  [ ok |-> /\ Boundary(t, i)
                 /\ LitAt(t, i, be, FALSE)
                 /\ n1 >= 1
                 /\ lv >= 3
                 /\ LitAt(t, v + lv - 2, << "e", "d" >>, FALSE)
                 /\ n2 >= 1
                 /\ LitAt(t, by, << "b", "y" >>, FALSE)
                 /\ n3 >= 1
                 /\ a <= Len(t)
                 /\ t[a] \in Upper,
          verb |-> << v, v + lv - 1 >>,
          agent |-> a ]

PassiveK(t, i) ==
    LET ks == { k \in 1..Len(BE_WORDS) : PassiveParts(t, i, k).ok }
    IN  IF ks = { } THEN 0 ELSE MinOf(ks)

PassiveAt(t, i) ==
    IF PassiveK(t, i) = 0 THEN 0
    ELSE GiveBackHyphens(t, AgentGreedy(t, PassiveParts(t, i, PassiveK(t, i)).agent))

passiveToActive(text, intensity) ==
    IF intensity <= 0 THEN text
    ELSE ReplaceAll(text, PassiveAt,
            LAMBDA tt, s, e :
                LET pp == PassiveParts(tt, s, PassiveK(tt, s))
                IN  SubSeq(tt, pp.agent, e) \o << " " >>
                      \o SubSeq(tt, pp.verb[1], pp.verb[2] - 2))

THERE == <<"t","h","e","r","e">>

\* the position of the group of /\bThere\s+(?:is|are)\s+([a-z][^.!?]*)/i
\* matched at position i, 0 when it does not match
ThereGroup(t, i) ==
    LET n1 == RunLen(t, i + 5, Space)
        b  == i + 5 + n1
        lb == IF LitAt(t, b, << "i", "s" >>, TRUE) THEN 2
              ELSE IF LitAt(t, b, << "a", "r", "e" >>, TRUE) THEN 3 ELSE 0
        n2 == RunLen(t, b + lb, Space)
        g  == b + lb + n2
    IN  IF /\ Boundary(t, i)
           /\ LitAt(t, i, THERE, TRUE)
           /\ n1 >= 1
           /\ lb > 0
           /\ n2 >= 1
           /\ g <= Len(t)
           /\ t[g] \in Letter
        THEN g ELSE 0

ThereIsAt(t, i) ==
    LET g == ThereGroup(t, i)
    IN  IF g = 0 THEN 0
        ELSE g + RunLenNot(t, g + 1, Terminator)

rewriteThereIs(text) ==
    ReplaceAll(text, ThereIsAt,
               LAMBDA tt, s, e : title(trim(SubSeq(tt, ThereGroup(tt, s), e))))

CONJ_REORDER ==
    << <<"b","e","c","a","u","s","e">>, <<"w","h","e","n">>, <<"i","f">>,
       <<"a","l","t","h","o","u","g","h">> >>

\* the rest of reorderClauses' pattern at a comma at position c:
\* ,\s*(because|when|if|although)\s+([^,.!?]{3,})([.!?])
\* ok, conj << first, last >>, clause << first, last >>; the terminator
\* follows the clause.  \s+ gives white space back to the clause until the
\* clause has three characters.
ClauseParts(t, c) ==
    LET w0 == RunLen(t, c + 1, Space)
        q  == c + 1 + w0
        ks == { k \in 1..Len(CONJ_REORDER) : LitAt(t, q, CONJ_REORDER[k], TRUE) }
        lc0 == IF ks = { } THEN 0 ELSE Len(CONJ_REORDER[CHOOSE k \in ks : TRUE])
        r  == q + lc0
        w1 == RunLen(t, r, Space)
        tot == RunLenNot(t, r, { ",", ".", "!", "?" })
        w  == Min(w1, tot - 3)
    IN  [ ok |-> /\ c <= Len(t)
                 /\ t[c] = ","
                 /\ lc0 > 0
                 /\ w >= 1
                 /\ r + tot <= Len(t)
                 /\ t[r + tot] \in Terminator,
          conj |-> << q, r - 1 >>,
          clause |-> << r + w, r + tot - 1 >> ]

\* (.+?) from position i: the first comma after i, no line break before it,
\* at which the rest matches; 0 when there is none
ReorderComma(t, i) ==
    LET cs == { c \in (i + 1)..Len(t) :
                  /\ ClauseParts(t, c).ok
                  /\ \A k \in i..(c - 1) : t[k] \notin { "\n", "\r" } }
    IN  IF cs = { } THEN 0 ELSE MinOf(cs)

ReorderAt(t, i) ==
    LET c == ReorderComma(t, i)
    IN  IF c = 0 THEN 0 ELSE ClauseParts(t, c).clause[2] + 1

\* clause.split(/\s+/).length
splitSpaceCount(s) == Len(Matches(s, SpacesAt)) + 1

reorderClauses(text, creativity) ==
    IF creativity <= 35 THEN text
    ELSE ReplaceAll(text, ReorderAt,
            LAMBDA tt, s, e :
                LET c == ReorderComma(tt, s)
                    cp == ClauseParts(tt, c)
                    clause == SubSeq(tt, cp.clause[1], cp.clause[2])
                IN  IF splitSpaceCount(clause) < 3 THEN SubSeq(tt, s, e)
                    ELSE title(toLowerCase(SubSeq(tt, cp.conj[1], cp.conj[2])))
                           \o << " " >> \o clause \o << ",", " " >>
                           \o trim(SubSeq(tt, s, c - 1)) \o << tt[e] >>)

(***************************************************************************)
(* 3) composition                                                          *)
(***************************************************************************)
CONJ_SPLIT ==
    << <<"a","n","d">>, <<"b","u","t">>, <<"b","e","c","a","u","s","e">>,
       <<"w","h","i","c","h">>, <<"s","o">>, <<"a","l","t","h","o","u","g","h">>,
       <<"w","h","e","n">>, <<"i","f">> >>

\* /,|\b(and|but|because|which|so|although|when|if)\b/i at position i
CutAt(t, i) ==
    IF t[i] = "," THEN i ELSE AnyWordAt(t, i, CONJ_SPLIT, 1)

\* s.search(...): the 0-based index of the first match, -1 when none
search(s) ==
    LET ms == FirstMatch(s, CutAt)
    IN  IF ms = << >> THEN -1 ELSE ms[1][1] - 1

\* weaveLengths with WORD_RE matches counted instead
weaveCountWords(s) == wordCount(s)

\* the token count of weaveLengths: s.split(/\s+/).length
weaveCount(s) == splitSpaceCount(s)

\* the two pieces a long sentence is cut into
splitLong(s) ==
    LET found == search(s)
        cut == IF found < 0 THEN Len(s) \div 2 ELSE found
    IN  << trim(SubSeq(s, 1, cut + 1)), trim(From(s, cut + 2)) >>

\* the loop of weaveLengths from sentence i on, out being what is pushed so far
RECURSIVE weaveFrom(_, _, _)
weaveFrom(sentences, i, out) ==
    IF i > Len(sentences) THEN out
    ELSE LET s == sentences[i]
             n == weaveCount(s)
             nxt == IF n > 28 THEN out \o splitLong(s)
                    ELSE IF n < 6 /\ Len(out) > 0
                    THEN [ out EXCEPT ![Len(out)] = tidy(out[Len(out)] \o << " " >> \o s) ]
                    ELSE Append(out, s)
         IN  IF Len(nxt) >= 0 THEN weaveFrom(sentences, i + 1, nxt) ELSE nxt

weaveLengths(sentences) == weaveFrom(sentences, 1, << >>)

\* the em dash (U+2014), one character
EmDash == "u2014"

\* /, (which|who)\b/i at position i
CommaWhichAt(t, i) ==
    IF LitAt(t, i, << ",", " " >>, FALSE)
    THEN IF PhraseAt(t, i + 2, <<"w","h","i","c","h">>) # 0
         THEN PhraseAt(t, i + 2, <<"w","h","i","c","h">>)
         ELSE PhraseAt(t, i + 2, <<"w","h","o">>)
    ELSE 0

\* /, and\b/i at position i
CommaAndAt(t, i) == PhraseAt(t, i, << ",", " ", "a", "n", "d" >>)

varyPunctuation(text, creativity) ==
    LET step1(t) == ReplaceAll(t, CommaWhichAt,
                       LAMBDA tt, s, e : << " ", EmDash, " " >> \o SubSeq(tt, s + 2, e))
        step2(t) == ReplaceAll(t, CommaAndAt, LAMBDA tt, s, e : << " ", "a", "n", "d" >>)
        A == { IF b THEN step1(text) ELSE text : b \in chance(2500 + 40 * creativity) }
    IN  { IF b THEN step2(t) ELSE t : t \in A, b \in chance(2000 + 30 * creativity) }

\* the loop of softenAbsolutes over HEDGES from key k on, T the texts so far
RECURSIVE softenFrom(_, _, _)
softenFrom(T, creativity, k) ==
    IF k > Len(HEDGES) THEN T
    ELSE LET U == { IF b THEN ReplaceAll(t, LAMBDA tt, i : WholeWordAt(tt, i, HEDGES[k][1]),
                                         LAMBDA tt, s, e : HEDGES[k][2])
                    ELSE t : t \in T, b \in chance(70 * creativity + 2000) }
         IN  IF U # { } THEN softenFrom(U, creativity, k + 1) ELSE U

softenAbsolutes(text, creativity) == softenFrom({ text }, creativity, 1)

\* new RegExp(`^\\s*${p}\\s*,?\\s*`, "i"): the last position of the match at
\* the start of t, 0 when there is none
OpenerEnd(t, p) ==
    LET n0 == RunLen(t, 1, Space)
        a  == n0 + Len(p)
        n1 == RunLen(t, a + 1, Space)
        cm == IF a + n1 + 1 <= Len(t) /\ t[a + n1 + 1] = "," THEN 1 ELSE 0
        n2 == RunLen(t, a + n1 + cm + 1, Space)
    IN  IF LitAt(t, n0 + 1, p, TRUE) THEN a + n1 + cm + n2 ELSE 0

\* the same with a \b after the phrase, as sentenceMetrics has it
OpenerEndWhole(t, p) ==
    IF Boundary(t, RunLen(t, 1, Space) + Len(p) + 1) THEN OpenerEnd(t, p) ELSE 0

\* the forEach over STOCK_OPENERS from phrase k on
RECURSIVE stripFrom(_, _)
stripFrom(t, k) ==
    IF k > Len(STOCK_OPENERS) THEN t
    ELSE LET u == From(t, OpenerEnd(t, STOCK_OPENERS[k]) + 1)
         IN  IF Len(u) >= 0 THEN stripFrom(u, k + 1) ELSE u

stripStockOpeners(text) == stripFrom(text, 1)

(***************************************************************************)
(* 4) noun-of to possessive                                                *)
(***************************************************************************)
\* the parts of /\bthe\s+([a-z]+)\s+of\s+([a-z][a-z-]*)\b/i at position i:
\* ok, noun << first, last >>, owner << first, last >>
OfParts(t, i) ==
    LET n1 == RunLen(t, i + 3, Space)
        a  == i + 3 + n1
        ln == RunLen(t, a, Letter)
        n2 == RunLen(t, a + ln, Space)
        f  == a + ln + n2
        n3 == RunLen(t, f + 2, Space)
        o  == f + 2 + n3
        r  == RunLen(t, o + 1, Letter \cup { "-" })
        ok == { j \in 0..r : Boundary(t, o + j + 1) }
    IN  [ ok |-> /\ Boundary(t, i)
                 /\ LitAt(t, i, << "t", "h", "e" >>, TRUE)
                 /\ n1 >= 1
                 /\ ln >= 1
                 /\ n2 >= 1
                 /\ LitAt(t, f, << "o", "f" >>, TRUE)
                 /\ n3 >= 1
                 /\ o <= Len(t)
                 /\ t[o] \in Letter
                 /\ ok # { },
          noun |-> << a, a + ln - 1 >>,
          owner |-> << o, IF ok = { } THEN o
                          ELSE o + MaxOf(ok) >> ]

OfAt(t, i) == IF OfParts(t, i).ok THEN OfParts(t, i).owner[2] ELSE 0

ofToPossessive(text) ==
    ReplaceAll(text, OfAt,
        LAMBDA tt, s, e :
            LET op == OfParts(tt, s)
            IN  SubSeq(tt, op.owner[1], op.owner[2]) \o << "'", "s", " " >>
                  \o SubSeq(tt, op.noun[1], op.noun[2]))

(***************************************************************************)
(* Rewriter pipeline                                                       *)
(***************************************************************************)
\* the hard cap on words: 1000 in the source, at both of its uses (lines 379
\* and 484); scaled down here so that texts over the cap are among the
\* model's texts
WordCap == 2

\* if (creativity > 0.4) t = rewriteThereIs(t)
thereStep(t, creativity) == IF creativity > 40 THEN rewriteThereIs(t) ELSE t

\* if (chance(0.35 + 0.3 * creativity)) t = ofToPossessive(t)
possessiveStep(t, creativity) ==
    { IF b THEN ofToPossessive(t) ELSE t : b \in chance(3500 + 30 * creativity) }

\* humanizeSentence from passiveToActive on
humanizeTail(t5, creativity) ==
    { tidy(t11) :
        t11 \in UNION { softenAbsolutes(t10, creativity) :
            t10 \in UNION { varyPunctuation(t9, creativity) :
                t9 \in possessiveStep(
                          reorderClauses(
                              thereStep(passiveToActive(t5, creativity), creativity),
                              creativity),
                          creativity) } } }

\* the runs of humanizeSentence: the value of t after applySynonyms (pre),
\* after dropFillerThat (post), and the text returned (out)
humanizeSteps(s, creativity) ==
    UNION { UNION { { [ pre |-> t4, post |-> t5, out |-> o ] :
                        o \in humanizeTail(t5, creativity) } :
                    t5 \in { dropFillerThat(t4, creativity) } } :
            t4 \in applySynonyms(simplifyWords(swapPhrases(stripStockOpeners(s))),
                                 creativity) }

humanizeSentence(s, creativity) == { r.out : r \in humanizeSteps(s, creativity) }

\* rewriteParagraph once the sentences are woven
rewriteSentences(ss, creativity) ==
    { tidy(joinSentences(hs)) :
        hs \in SeqProduct([ k \in 1..Len(ss) |-> humanizeSentence(ss[k], creativity) ]) }

rewriteParagraph(p, creativity) ==
    IF trim(p) = << >> THEN { p }
    ELSE rewriteSentences(weaveLengths(splitSentences(p)), creativity)

\* /[\r\t]+/ at position i
CrTabAt(t, i) ==
    LET n == RunLen(t, i, { "\r", "\t" }) IN IF n >= 1 THEN i + n - 1 ELSE 0

\* /\n[ \t]+/ at position i
NlSpacesAt(t, i) ==
    LET n == RunLen(t, i + 1, { " ", "\t" })
    IN  IF t[i] = "\n" /\ n >= 1 THEN i + n ELSE 0

\* /(([^.!?]|\([^)]*\))+[.!?])\s+(?=[^\n])/ continued at position j, `some`
\* telling whether the + has matched already: the last position of the
\* match, 0 when there is none.  The run of [^.!?] is taken whole; when the
\* rest fails after it, the latest "(" of the run that \([^)]*\) can match
\* with success is matched that way.
RECURSIVE GuardFrom(_, _, _)
GuardFrom(t, j, some) ==
    LET r == RunLenNot(t, j, Terminator)
        q == j + r
        w == RunLen(t, q + 1, Space)
        ok == { k \in 1..w : q + k + 1 <= Len(t) /\ t[q + k + 1] # "\n" }
        closing(p) == { k \in (p + 1)..Len(t) : t[k] = ")" }
        via(p) == GuardFrom(t, MinOf(closing(p)) + 1, TRUE)
        good == { p \in j..(q - 1) : t[p] = "(" /\ closing(p) # { } /\ via(p) # 0 }
    IN  IF q <= Len(t) /\ (some \/ r >= 1) /\ ok # { } THEN q + MaxOf(ok)
        ELSE IF good = { } THEN 0
        ELSE via(MaxOf(good))

GuardAt(t, i) == GuardFrom(t, i, FALSE)

\* "Ensure paragraph separation for very long sentences"
separateLong(out) ==
    ReplaceAll(out, GuardAt,
        LAMBDA tt, s, e :
            SubSeq(tt, s, e) \o (IF e - s + 1 > 220 THEN << "\n", "\n" >> ELSE << " " >>))

\* rewriteText once the paragraphs are split
rewriteParagraphs(paras, creativity) ==
    { tidy(separateLong(joinParagraphs(ps))) :
        ps \in SeqProduct([ k \in 1..Len(paras) |-> rewriteParagraph(paras[k], creativity) ]) }

rewriteText(text, creativity) ==
    rewriteParagraphs(
        splitParagraphs(
            ReplaceAll(
                ReplaceAll(capToWords(trim(text), WordCap), CrTabAt,
                           LAMBDA tt, s, e : << " " >>),
                NlSpacesAt, LAMBDA tt, s, e : << "\n" >>)),
        creativity)

(***************************************************************************)
(* AI-likeness detector.  The source computes with doubles; the model      *)
(* computes the same expressions with exact fractions << num, den >>,      *)
(* den > 0, in lowest terms, and leaves the rounding error of the doubles  *)
(* out.  Math.sqrt is never evaluated: the square root is compared by      *)
(* squaring.                                                               *)
(***************************************************************************)
RECURSIVE Gcd(_, _)
Gcd(a, b) == IF b = 0 THEN a ELSE Gcd(b, a % b)

Abs(x) == IF x < 0 THEN 0 - x ELSE x

Rat(n, d) == LET g == Gcd(Abs(n), d) IN << n \div g, d \div g >>

Whole(n) == << n, 1 >>

RAdd(x, y) == Rat(x[1] * y[2] + y[1] * x[2], x[2] * y[2])

RSub(x, y) == Rat(x[1] * y[2] - y[1] * x[2], x[2] * y[2])

RMul(x, y) == Rat(x[1] * y[1], x[2] * y[2])

\* x / y for y > 0
RDiv(x, y) == Rat(x[1] * y[2], x[2] * y[1])

RLt(x, y) == x[1] * y[2] < y[1] * x[2]

RLe(x, y) == x[1] * y[2] <= y[1] * x[2]

RMin(x, y) == IF RLt(y, x) THEN y ELSE x

RMax(x, y) == IF RLt(x, y) THEN y ELSE x

RFloor(x) == x[1] \div x[2]

RECURSIVE RSum(_)
RSum(xs) == IF xs = << >> THEN Whole(0) ELSE RAdd(xs[1], RSum(Tail(xs)))

\* Math.floor(z - Math.sqrt(q)) for q >= 0
FloorLessSqrt(z, q) ==
    LET y0 == MaxOf({ y \in 0..(RFloor(q) + 1) : RLe(Whole(y * y), q) })
        f  == RSub(z, Whole(RFloor(z)))
        g  == RAdd(Whole(y0), f)
    IN  RFloor(z) - y0 - (IF RLe(q, RMul(g, g)) THEN 0 ELSE 1)

\* the alternatives of /(ing|ed|ly|ment|tion|s)$/
SUFFIXES ==
    << <<"i","n","g">>, <<"e","d">>, <<"l","y">>, <<"m","e","n","t">>, <<"t","i","o","n">>, <<"s">> >>

\* the position where /(ing|ed|ly|ment|tion|s)$/ matches first in t, 0 when
\* it matches nowhere
SuffixStart(t) ==
    LET at == { i \in 1..Len(t) : \E k \in 1..Len(SUFFIXES) : SubSeq(t, i, Len(t)) = SUFFIXES[k] }
    IN  IF at = { } THEN 0 ELSE MinOf(at)

stemToken(t) ==
    LET l == lc(t)
        i == SuffixStart(l)
    IN  IF i = 0 THEN l ELSE SubSeq(l, 1, i - 1)

\* new RegExp(`^\\s*${p}\\b`, "i").test(s)
OpenerTest(s, p) ==
    LET n0 == RunLen(s, 1, Space)
    IN  LitAt(s, n0 + 1, p, TRUE) /\ Boundary(s, n0 + Len(p) + 1)

Filter(xs, keep(_)) ==
    LET F[k \in 0..Len(xs)] ==
            IF k = 0 THEN << >>
            ELSE IF keep(xs[k]) THEN Append(F[k - 1], xs[k]) ELSE F[k - 1]
    IN  F[Len(xs)]

SumInt(xs) ==
    LET F[k \in 0..Len(xs)] == IF k = 0 THEN 0 ELSE F[k - 1] + xs[k]
    IN  F[Len(xs)]

\* avgLen is kept as the fraction it is the value of
sentenceMetrics(s) ==
    LET toks == tokens(s)
        words == Filter(toks, LAMBDA w : lc(w) \notin STOP)
        joined == SumInt([ k \in 1..Len(toks) |-> Len(toks[k]) ])
    IN  [ len |-> Len(toks),
          avgLen |-> IF Len(toks) # 0 THEN Rat(joined, Len(toks)) ELSE Whole(0),
          commas |-> Cardinality({ i \in 1..Len(s) : s[i] = "," }),
          openers |-> \E k \in 1..Len(STOCK_OPENERS) : OpenerTest(s, STOCK_OPENERS[k]),
          unique |-> Cardinality({ stemToken(words[k]) : k \in 1..Len(words) }),
          words |-> Len(words) ]

\* paras.flatMap(splitSentences).filter(Boolean)
RECURSIVE flatMap(_)
flatMap(paras) ==
    IF paras = << >> THEN << >>
    ELSE splitSentences(paras[1]) \o flatMap(Tail(paras))

scanSentences(text) == Filter(flatMap(splitParagraphs(text)), LAMBDA s : s # << >>)

\* the cue strength with the average word length measured against 5.6
cuesOfShifted(m) ==
    RSum(<< IF m.len < 9 THEN Whole(0) ELSE Rat(m.len, 25),
            RMul(RSub(m.avgLen, Rat(56, 10)), Rat(6, 10)),
            IF m.commas > 2 THEN Rat(8, 10) ELSE Whole(0),
            IF m.openers THEN Rat(12, 10) ELSE Whole(0) >>)

\* the per-sentence cue strength
cuesOf(m) ==
    RSum(<< IF m.len < 9 THEN Whole(0) ELSE Rat(m.len, 25),
            RMul(RSub(m.avgLen, Rat(55, 10)), Rat(6, 10)),
            IF m.commas > 2 THEN Rat(8, 10) ELSE Whole(0),
            IF m.openers THEN Rat(12, 10) ELSE Whole(0) >>)

\* [...xs].sort((a, b) => a - b)
RECURSIVE sortAscending(_)
sortAscending(xs) ==
    IF xs = << >> THEN << >>
    ELSE LET k == CHOOSE k \in 1..Len(xs) :
                      /\ \A j \in 1..Len(xs) : RLe(xs[k], xs[j])
                      /\ \A j \in 1..(k - 1) : xs[j] # xs[k]
         IN  << xs[k] >> \o sortAscending(SubSeq(xs, 1, k - 1) \o SubSeq(xs, k + 1, Len(xs)))

\* the threshold taken at rank floor(0.7 n)
pickThresholdAt70(sorted) ==
    LET v == sorted[((Len(sorted) * 7) \div 10) + 1]
    IN  IF v = Whole(0) THEN Rat(75, 100) ELSE v

\* sorted[Math.floor(sorted.length * 0.6)] || 0.75
pickThreshold(sorted) ==
    LET v == sorted[((Len(sorted) * 6) \div 10) + 1]
    IN  IF v = Whole(0) THEN Rat(75, 100) ELSE v

\* the score clamped from below only
clampScoreBelow(rounded) == Max(0, rounded)

\* score = Math.max(0, Math.min(100, Math.round(score)))
clampScore(rounded) == Max(0, Min(100, rounded))

\* Math.round of the score of the sentences with metrics ms
roundedScore(ms) ==
    LET n == Len(ms)
        lens == [ k \in 1..n |-> ms[k].len ]
        mean == Rat(SumInt(lens), n)
        variance == RDiv(RSum([ k \in 1..n |->
                        RMul(RSub(Whole(lens[k]), mean), RSub(Whole(lens[k]), mean)) ]), Whole(n))
        \* cov squared: cov = mean ? stdev / mean : 0
        cov2 == IF mean # Whole(0) THEN RDiv(variance, RMul(mean, mean)) ELSE Whole(0)
        uniqueTotals == [ k \in 1..n |->
                            IF ms[k].words # 0 THEN Rat(ms[k].unique, ms[k].words) ELSE Whole(1) ]
        uniqAvg == RDiv(RSum(uniqueTotals), Whole(n))
        avgWordLen == RDiv(RSum([ k \in 1..n |-> ms[k].avgLen ]), Whole(n))
        commaRate == RDiv(Whole(SumInt([ k \in 1..n |-> ms[k].commas ])), Whole(Max(1, n)))
        openerCount == Cardinality({ k \in 1..n : ms[k].openers })
        \* the terms of the score but 45 * Math.min(0.28, cov), and 0.5
        rest == RSum(<< Rat(1, 2),
                        RMul(Whole(45), Rat(28, 100)),
                        RMul(Whole(25), RSub(Rat(58, 100), RMin(Rat(58, 100), uniqAvg))),
                        RMul(Whole(10), RMin(Whole(1), RDiv(Whole(openerCount), RMax(Whole(1), Rat(n, 4))))),
                        RMul(Whole(10), RMax(Whole(0), RDiv(RSub(avgWordLen, Rat(56, 10)), Rat(22, 10)))),
                        RMul(Whole(10), RMax(Whole(0), RDiv(RSub(commaRate, Rat(8, 10)), Whole(2)))) >>)
    IN  IF RLe(RMul(Rat(28, 100), Rat(28, 100)), cov2)
        THEN RFloor(RSub(rest, RMul(Whole(45), Rat(28, 100))))
        ELSE FloorLessSqrt(rest, RMul(Whole(45 * 45), cov2))

\* the result of computeAIScan for the score ai and the cue list
scanResult(ai, perSentence) ==
    [ ai |-> ai, human |-> 100 - ai, perSentence |-> perSentence,
      threshold |-> pickThreshold(
                      sortAscending([ k \in 1..Len(perSentence) |-> perSentence[k].cues ])) ]

\* computeAIScan once the sentences are split
scanOf(sentences) ==
    IF Len(sentences) = 0
    THEN [ ai |-> 0, human |-> 100, perSentence |-> << >>, threshold |-> Whole(0) ]
    ELSE scanResult(
            clampScore(roundedScore([ k \in 1..Len(sentences) |->
                                        sentenceMetrics(sentences[k]) ])),
            [ k \in 1..Len(sentences) |->
                [ s |-> sentences[k], cues |-> cuesOf(sentenceMetrics(sentences[k])) ] ])

computeAIScan(text) == scanOf(scanSentences(text))

(***************************************************************************)
(* The component KaptainHumanizer                                          *)
(***************************************************************************)
VARIABLES
    input,       \* the text of the input box
    output,      \* the rewritten text
    creativity,  \* the slider, in hundredths
    loading,     \* a Humanize is running
    scanMode,    \* the output pane shows the highlighted scan
    scanHTML,    \* the scan shown: per paragraph, its spans [ s, isAI ]
    aiPct,       \* Null or << n >>
    humanPct,    \* Null or << n >>
    waiting,     \* the calls of handleHumanize suspended in their pause, each
                 \* with the input and creativity of the render it was made in
    clipboard,   \* the text last copied
    afterReset,  \* history: Reset was pressed, and neither Humanize nor
                 \* Check AI since
    probe        \* the function applied outside the component, its arguments
                 \* and, once it has returned, its result

ui == << input, output, creativity, loading, scanMode, scanHTML, aiPct, humanPct,
         waiting, clipboard, afterReset >>

vars == << input, output, creativity, loading, scanMode, scanHTML, aiPct, humanPct,
           waiting, clipboard, afterReset, probe >>

Null == << >>

\* the positions of the slider the model moves it to (min 0, max 1, step 0.05)
Levels == { 0, 30, 50, 95 }

\* the state of the component after its first render
Mounted ==
    /\ input = << >>
    /\ output = << >>
    /\ creativity = 95
    /\ loading = FALSE
    /\ scanMode = FALSE
    /\ scanHTML = << >>
    /\ aiPct = Null
    /\ humanPct = Null
    /\ waiting = << >>
    /\ clipboard = << >>
    /\ afterReset = FALSE

handleInputChange(value) ==
    /\ input' = capToWords(value, WordCap)
    /\ UNCHANGED << output, creativity, loading, scanMode, scanHTML, aiPct, humanPct,
                    waiting, clipboard, afterReset, probe >>

setCreativity(c) ==
    /\ creativity' = c
    /\ UNCHANGED << input, output, loading, scanMode, scanHTML, aiPct, humanPct,
                    waiting, clipboard, afterReset, probe >>

\* handleHumanize up to its await; the button is disabled while loading
handleHumanize ==
    /\ ~loading
    /\ trim(input) # << >>
    /\ loading' = TRUE
    /\ scanMode' = FALSE
    /\ scanHTML' = << >>
    /\ aiPct' = Null
    /\ humanPct' = Null
    /\ waiting' = Append(waiting, [ input |-> input, creativity |-> creativity ])
    /\ afterReset' = FALSE
    /\ UNCHANGED << input, output, creativity, clipboard, probe >>

\* the rest of handleHumanize once rewriteText has returned
showRewritten(rewritten, scan) ==
    /\ output' = rewritten
    /\ loading' = FALSE
    /\ aiPct' = << scan.ai >>
    /\ humanPct' = << scan.human >>

\* handleHumanize after its await
humanizeResume ==
    /\ waiting # << >>
    /\ \E rewritten \in rewriteText(Head(waiting).input, Head(waiting).creativity) :
          showRewritten(rewritten, computeAIScan(rewritten))
    /\ waiting' = Tail(waiting)
    /\ UNCHANGED << input, creativity, scanMode, scanHTML, clipboard, afterReset, probe >>

\* the spans of handleCheckAI for the sentences ss of each paragraph: idx
\* runs over the sentences of all paragraphs
spansOf(ss, scan) ==
    [ k \in 1..Len(ss) |->
        [ j \in 1..Len(ss[k]) |->
            [ s |-> ss[k][j],
              isAI |-> RLt(scan.threshold,
                           IF SumInt([ i \in 1..(k - 1) |-> Len(ss[i]) ]) + j
                                <= Len(scan.perSentence)
                           THEN scan.perSentence[
                                  SumInt([ i \in 1..(k - 1) |-> Len(ss[i]) ]) + j].cues
                           ELSE Whole(0)) ] ] ]

scanSpans(paragraphs, scan) ==
    spansOf([ k \in 1..Len(paragraphs) |-> splitSentences(paragraphs[k]) ], scan)

\* handleCheckAI once the text is scanned
showScan(text, scan) ==
    /\ aiPct' = << scan.ai >>
    /\ humanPct' = << scan.human >>
    /\ scanHTML' = scanSpans(splitParagraphs(text), scan)
    /\ scanMode' = TRUE

\* handleCheckAI for the text it takes
checkText(text) ==
    /\ trim(text) # << >>
    /\ showScan(text, computeAIScan(text))
    /\ afterReset' = FALSE
    /\ UNCHANGED << input, output, creativity, loading, waiting, clipboard, probe >>

handleCheckAI == checkText(IF output # << >> THEN output ELSE input)

\* the textContent of the scan: the spans of a paragraph are joined by a
\* space, and the <br/> between paragraphs have no text
stripHTML(html) ==
    join([ k \in 1..Len(html) |-> join([ j \in 1..Len(html[k]) |-> html[k][j].s ], << " " >>) ],
         << >>)

handleCopy ==
    LET text == IF scanMode /\ scanHTML # << >> THEN stripHTML(scanHTML) ELSE output
    IN  /\ text # << >>
        /\ clipboard' = text
        /\ UNCHANGED << input, output, creativity, loading, scanMode, scanHTML, aiPct,
                        humanPct, waiting, afterReset, probe >>

handleReset ==
    /\ input' = << >>
    /\ output' = << >>
    /\ scanMode' = FALSE
    /\ scanHTML' = << >>
    /\ aiPct' = Null
    /\ humanPct' = Null
    /\ afterReset' = TRUE
    /\ UNCHANGED << creativity, loading, waiting, clipboard, probe >>

(***************************************************************************)
(* capToWords, and the input box it caps                                   *)
(***************************************************************************)
\* one character of each class WORD_RE tells apart, and a second character
\* that starts a token
CapAlphabet == { "a", "7", "-", " " }

MaxCapLen == 5

MaxCap == 3

InitCap ==
    /\ Mounted
    /\ probe \in { [ op |-> "capToWords", text |-> t, maxWords |-> n,
                     done |-> FALSE, out |-> << >> ] :
                   t \in TextsUpTo(CapAlphabet, MaxCapLen), n \in 1..MaxCap }

callCapToWords ==
    /\ ~probe.done
    /\ probe' = [ probe EXCEPT !.done = TRUE,
                               !.out = capToWords(probe.text, probe.maxWords) ]
    /\ UNCHANGED ui

\* the user replaces the content of the input box by the text drawn
changeInput == handleInputChange(probe.text)

NextCap == callCapToWords \/ changeInput \/ handleReset

SpecCap == InitCap /\ [][NextCap]_vars

IsPrefix(a, b) == Len(a) <= Len(b) /\ SubSeq(b, 1, Len(a)) = a

\* t ends where a token ends in text: on a token character that no token
\* character follows
EndsToken(t, text) ==
    /\ t # << >>
    /\ t[Len(t)] \in TokCont
    /\ Len(t) < Len(text) => text[Len(t) + 1] \notin TokCont

\* C1: capToWords(text, N) is a prefix of text with at most N words, and
\* when it is shorter than text it ends at the end of a token; the input box
\* never holds more words than the cap.
C1_CapToWords ==
    /\ wordCount(input) <= WordCap
    /\ probe.done =>
          /\ IsPrefix(probe.out, probe.text)
          /\ wordCount(probe.out) <= probe.maxWords
          /\ probe.out # probe.text => EndsToken(probe.out, probe.text)

\* a text of more words than N has been capped, and the input box holds the
\* text typed cut at the cap
C1_Witness ==
    /\ probe.done
    /\ wordCount(probe.text) > probe.maxWords
    /\ probe.out # probe.text
    /\ wordCount(probe.text) > WordCap
    /\ wordCount(input) = WordCap
    /\ input # probe.text

(***************************************************************************)
(* computeAIScan                                                           *)
(***************************************************************************)
\* a string as the text it denotes
Chars(w) == [ k \in 1..Len(w) |-> SubSeq(w, k, k) ]

\* the texts made of at most n of the pieces, in any order
Pieced(pieces, n) ==
    { join([ k \in 1..Len(ix) |-> Chars(pieces[ix[k]]) ], << >>) :
        ix \in UNION { [ 1..m -> 1..Len(pieces) ] : m \in 0..n } }

\* a short sentence; a sentence whose cue strength is 0; a stock opener; a
\* run of commas; a sentence of nine tokens; a long word; a sentence without
\* a token
ScanPieces ==
    << "Hi. ", "abcde abcdef. ", "Overall, ", ",,,,,,,,,,,,,,,,,,,, ",
       "a b c d e f g h i. ", "extraordinarily ", "... " >>

MaxScanPieces == 3

InitScan ==
    /\ Mounted
    /\ probe \in { [ op |-> "computeAIScan", text |-> t, done |-> FALSE,
                     out |-> [ ai |-> 0, human |-> 0, perSentence |-> << >>,
                               threshold |-> Whole(0) ] ] :
                   t \in Pieced(ScanPieces, MaxScanPieces) }

callComputeAIScan ==
    /\ ~probe.done
    /\ probe' = [ probe EXCEPT !.done = TRUE, !.out = computeAIScan(probe.text) ]
    /\ UNCHANGED ui

NextScan == callComputeAIScan

SpecScan == InitScan /\ [][NextScan]_vars

\* C3: ai and human are integers of 0..100 whose sum is 100.
C3_Percentages ==
    probe.done =>
        /\ probe.out.ai \in 0..100
        /\ probe.out.human \in 0..100
        /\ probe.out.ai + probe.out.human = 100

\* a text whose score is over 100 before it is clamped
C3_Witness ==
    /\ probe.done
    /\ scanSentences(probe.text) # << >>
    /\ roundedScore([ k \in 1..Len(scanSentences(probe.text)) |->
                        sentenceMetrics(scanSentences(probe.text)[k]) ]) > 100
    /\ probe.out.ai = 100
    /\ probe.out.human = 0

\* the cue strengths of a result, in the order of the sentences
CuesOfResult(out) == [ k \in 1..Len(out.perSentence) |-> out.perSentence[k].cues ]

\* v is the value at rank r (from 0) of the values of c in ascending order
IsAtRank(v, c, r) ==
    /\ \E k \in 1..Len(c) : c[k] = v
    /\ Cardinality({ k \in 1..Len(c) : RLt(c[k], v) }) <= r
    /\ Cardinality({ k \in 1..Len(c) : RLe(c[k], v) }) >= r + 1

\* C7 as the specification states it: with two sentences or more the
\* threshold is the cue strength at rank floor(0.6 n), and with one sentence
\* it is 0.75.
C7_AsStated ==
    (probe.done /\ Len(probe.out.perSentence) >= 1) =>
        LET c == CuesOfResult(probe.out)
        IN  /\ Len(c) >= 2 => IsAtRank(probe.out.threshold, c, (6 * Len(c)) \div 10)
            /\ Len(c) = 1 => probe.out.threshold = Rat(75, 100)

\* C7: for every number n >= 1 of sentences the threshold is the cue
\* strength at rank floor(0.6 n) of the cue strengths in ascending order,
\* but 0.75 when that cue strength is 0.
C7_Threshold ==
    (probe.done /\ Len(probe.out.perSentence) >= 1) =>
        LET c == CuesOfResult(probe.out)
        IN  \E k \in 1..Len(c) :
               /\ IsAtRank(c[k], c, (6 * Len(c)) \div 10)
               /\ probe.out.threshold = (IF c[k] = Whole(0) THEN Rat(75, 100) ELSE c[k])

\* three sentences of three cue strengths, none of them 0: the threshold
\* is the middle one
C7_Witness ==
    /\ probe.done
    /\ Len(probe.out.perSentence) = 3
    /\ LET c == CuesOfResult(probe.out)
       IN  /\ RLt(c[1], c[2])
           /\ RLt(c[2], c[3])
           /\ c[2] # Whole(0)
           /\ probe.out.threshold = c[2]

\* C8 as the specification states it: no cue strength is below 0.
C8_AsStated ==
    probe.done =>
        \A k \in 1..Len(probe.out.perSentence) :
            RLe(Whole(0), probe.out.perSentence[k].cues)

\* C8: no cue strength is below -3.3, and the cue strength of a sentence
\* with a token is not below -2.7.
C8_CueBound ==
    probe.done =>
        \A k \in 1..Len(probe.out.perSentence) :
            /\ RLe(Rat(-33, 10), probe.out.perSentence[k].cues)
            /\ wordCount(probe.out.perSentence[k].s) >= 1 =>
                  RLe(Rat(-27, 10), probe.out.perSentence[k].cues)

\* a sentence without a token, and a sentence of one-letter tokens: the two
\* bounds are attained
C8_Witness ==
    /\ probe.done
    /\ \E k \in 1..Len(probe.out.perSentence) :
          /\ wordCount(probe.out.perSentence[k].s) = 0
          /\ probe.out.perSentence[k].cues = Rat(-33, 10)
    /\ \E k \in 1..Len(probe.out.perSentence) :
          /\ wordCount(probe.out.perSentence[k].s) >= 1
          /\ RLt(probe.out.perSentence[k].cues, Whole(0))

(***************************************************************************)
(* rewriteText                                                             *)
(***************************************************************************)
\* two one-word sentences, a blank line, a line break, a Windows blank
\* line, a space and a tab
RewritePieces == << "Aa.", "bb!", "\n\n", "\n", "\r\n\r\n", " ", "\t" >>

MaxRewritePieces == 3

InitRewrite ==
    /\ Mounted
    /\ probe \in { [ op |-> "rewriteText", text |-> t, creativity |-> c,
                     done |-> FALSE, out |-> << >> ] :
                   t \in Pieced(RewritePieces, MaxRewritePieces), c \in Levels }

callRewriteText ==
    /\ ~probe.done
    /\ \E out \in rewriteText(probe.text, probe.creativity) :
          probe' = [ probe EXCEPT !.done = TRUE, !.out = out ]
    /\ UNCHANGED ui

NextRewrite == callRewriteText

SpecRewrite == InitRewrite /\ [][NextRewrite]_vars

\* the paragraphs of a text that are not blank
NonEmptyParagraphs(t) ==
    { k \in 1..Len(splitParagraphs(t)) : trim(splitParagraphs(t)[k]) # << >> }

\* C2 as the specification states it: a text of k >= 2 paragraphs, none of
\* them blank and all of them within the cap on words, is rewritten to a
\* text of at least k paragraphs.
C2_AsStated ==
    ( /\ probe.done
      /\ wordCount(probe.text) <= WordCap
      /\ Len(splitParagraphs(probe.text)) >= 2
      /\ Cardinality(NonEmptyParagraphs(probe.text)) = Len(splitParagraphs(probe.text)) )
    => Len(splitParagraphs(probe.out)) >= Len(splitParagraphs(probe.text))

(***************************************************************************)
(* applySynonyms                                                           *)
(***************************************************************************)
\* a word with synonyms in three case patterns, a digit, the two characters
\* that join tokens, a space and two stopwords
SynPieces == << "use", "USE", "Use", "1", "-", "'", " ", "the", "and" >>

MaxSynPieces == 3

InitSyn ==
    /\ Mounted
    /\ probe \in { [ op |-> "applySynonyms", text |-> t, creativity |-> c,
                     done |-> FALSE, edits |-> << >>, out |-> << >> ] :
                   t \in Pieced(SynPieces, MaxSynPieces), c \in Levels }

\* one run of applySynonyms: the replacement of each match is drawn, and
\* recorded with the place of the match
callApplySynonyms ==
    /\ ~probe.done
    /\ \E ed \in applySynonymsEdits(probe.text, probe.creativity) :
          probe' = [ probe EXCEPT !.done = TRUE, !.edits = ed,
                                  !.out = ApplyEdits(probe.text, ed, 1, 1) ]
    /\ UNCHANGED ui

NextSyn == callApplySynonyms

SpecSyn == InitSyn /\ [][NextSyn]_vars

\* the token text[a..b] is a stopword or holds a digit
IsProtected(text, a, b) ==
    \/ toLowerCase(SubSeq(text, a, b)) \in STOP
    \/ \E k \in a..b : text[k] \in Digit

\* the edit replaces text[ed[1]..ed[2]] by something else
Replaces(text, ed) == ed[3] # SubSeq(text, ed[1], ed[2])

\* C4 as the specification states it: no part of a token that is a stopword
\* or holds a digit is replaced.
C4_AsStated ==
    probe.done =>
        \A k \in 1..Len(wordMatches(probe.text, 1)) :
            LET m == wordMatches(probe.text, 1)[k]
            IN  IsProtected(probe.text, m[1], m[2]) =>
                    \A j \in 1..Len(probe.edits) :
                        Replaces(probe.text, probe.edits[j]) =>
                            \/ probe.edits[j][2] < m[1]
                            \/ probe.edits[j][1] > m[2]

(***************************************************************************)
(* stripStockOpeners                                                       *)
(***************************************************************************)
\* three stock openers, two words that begin with one, a comma, a space and
\* the rest of a sentence
StripPieces ==
    << "Overall", "In conclusion", "moreover", "overalls", "Finally", ",", " ",
       "the results were clear." >>

MaxStripPieces == 3

InitStrip ==
    /\ Mounted
    /\ probe \in { [ op |-> "stripStockOpeners", text |-> t, done |-> FALSE,
                     out |-> << >> ] :
                   t \in Pieced(StripPieces, MaxStripPieces) }

callStripStockOpeners ==
    /\ ~probe.done
    /\ probe' = [ probe EXCEPT !.done = TRUE, !.out = stripStockOpeners(probe.text) ]
    /\ UNCHANGED ui

NextStrip == callStripStockOpeners

SpecStrip == InitStrip /\ [][NextStrip]_vars

\* the stock openers the text begins with as whole phrases
WholeOpeners(text) ==
    { k \in 1..Len(STOCK_OPENERS) : OpenerTest(text, STOCK_OPENERS[k]) }

\* text without the opener p it begins with, and without the comma and the
\* spaces after it
WithoutOpener(text, p) ==
    LET n0 == RunLen(text, 1, Space)
        n1 == RunLen(text, n0 + Len(p) + 1, Space)
        cm == IF n0 + Len(p) + n1 + 1 <= Len(text) /\ text[n0 + Len(p) + n1 + 1] = ","
              THEN 1 ELSE 0
        n2 == RunLen(text, n0 + Len(p) + n1 + cm + 1, Space)
    IN  From(text, n0 + Len(p) + n1 + cm + n2 + 1)

\* C5 as the specification states it: a sentence that begins with a stock
\* opener as a whole phrase loses that opener and nothing else, and any
\* other sentence is returned as it is.
C5_AsStated ==
    probe.done =>
        IF WholeOpeners(probe.text) = { } THEN probe.out = probe.text
        ELSE \E k \in WholeOpeners(probe.text) :
                probe.out = WithoutOpener(probe.text, STOCK_OPENERS[k])

(***************************************************************************)
(* weaveLengths                                                            *)
(***************************************************************************)
\* the pieces a long sentence is made of: a word, two words without a space
\* between them, and a piece that holds no word
WeaveUnits == << Chars("ox"), Chars("a/b"), Chars("&") >>

\* a conjunction, a word that holds one, a comma, a conjunction before a hyphen
WeaveMarks == << Chars("so"), Chars("sand"), Chars("x,y"), Chars("if-ox") >>

MaxWeaveUnits == 30

WeaveSizes ==
    { MaxWeaveUnits \div 2, MaxWeaveUnits - 2, MaxWeaveUnits - 1, MaxWeaveUnits }

RECURSIVE JoinSpaced(_)
JoinSpaced(ps) ==
    IF ps = << >> THEN << >>
    ELSE IF Len(ps) = 1 THEN ps[1]
    ELSE ps[1] \o << " " >> \o JoinSpaced(Tail(ps))

\* n pieces u, the j-th replaced by the mark m (j = 0: none), and a full stop
WeaveSentence(u, n, j, m) ==
    JoinSpaced([ k \in 1..n |-> IF k = j THEN m ELSE u ]) \o << "." >>

WeaveSentences ==
    { WeaveSentence(WeaveUnits[u], n, 0, << >>) :
        u \in 1..Len(WeaveUnits), n \in WeaveSizes }
    \cup
    UNION { { WeaveSentence(WeaveUnits[u], n, j, WeaveMarks[m]) :
                j \in { 1, n \div 2, n } } :
            u \in 1..Len(WeaveUnits), n \in WeaveSizes, m \in 1..Len(WeaveMarks) }

ShortSentence == Chars("Hi there.")

InitWeave ==
    /\ Mounted
    /\ probe \in { [ op |-> "weaveLengths", sentences |-> ss, done |-> FALSE,
                     out |-> << >> ] :
                   ss \in UNION { { << s >>, << s, ShortSentence >>,
                                    << ShortSentence, s >> } :
                                  s \in WeaveSentences } }

callWeaveLengths ==
    /\ ~probe.done
    /\ probe' = [ probe EXCEPT !.done = TRUE,
                               !.out = weaveLengths(probe.sentences) ]
    /\ UNCHANGED ui

NextWeave == callWeaveLengths

SpecWeave == InitWeave /\ [][NextWeave]_vars

\* no comma and none of the conjunctions as a whole word
NoCutPoint(s) == \A i \in 1..Len(s) : CutAt(s, i) = 0

\* the pieces s falls into at its runs of white space
PieceCount(s) ==
    Cardinality({ i \in 1..Len(s) :
                    s[i] \in Space /\ (i = 1 \/ s[i - 1] \notin Space) }) + 1

\* s cut after the character at index floor(length / 2), each part trimmed
Halves(s) ==
    << trim(SubSeq(s, 1, Len(s) \div 2 + 1)), trim(From(s, Len(s) \div 2 + 2)) >>

\* the output sequence once the first k sentences are woven
Woven(k) ==
    IF k = Len(probe.sentences) THEN probe.out
    ELSE weaveLengths(SubSeq(probe.sentences, 1, k))

\* C6 as the specification states it: a sentence of 30 or more tokens with
\* no comma and no conjunction adds to the output exactly its two halves,
\* cut at the character midpoint.
C6_AsStated ==
    probe.done =>
        \A k \in 1..Len(probe.sentences) :
            ( /\ wordCount(probe.sentences[k]) >= 30
              /\ NoCutPoint(probe.sentences[k]) )
            => Woven(k) = Woven(k - 1) \o Halves(probe.sentences[k])

\* C6, amended: a sentence that falls into more than 28 pieces at its runs
\* of white space, with no comma and no conjunction as a whole word, adds to
\* the output exactly its two halves, cut at the character midpoint.
C6_Weave ==
    probe.done =>
        \A k \in 1..Len(probe.sentences) :
            ( /\ PieceCount(probe.sentences[k]) > 28
              /\ NoCutPoint(probe.sentences[k]) )
            => Woven(k) = Woven(k - 1) \o Halves(probe.sentences[k])

\* a sentence of 29 pieces and no word at all is cut in two at its midpoint,
\* after a short sentence that stays as it is
C6_Witness ==
    /\ probe.done
    /\ Len(probe.sentences) = 2
    /\ PieceCount(probe.sentences[2]) = 29
    /\ wordCount(probe.sentences[2]) = 0
    /\ NoCutPoint(probe.sentences[2])
    /\ probe.out = << ShortSentence >> \o Halves(probe.sentences[2])

(***************************************************************************)
(* simplifyWords                                                           *)
(***************************************************************************)
\* a key in lower case, capitalised, in capitals, and with all but its first
\* letter in capitals
Casings(k) ==
    { k, title(k), toUpperCase(k), << k[1] >> \o toUpperCase(Tail(k)) }

InitSimplify ==
    /\ Mounted
    /\ probe \in UNION { { [ op |-> "simplifyWords", key |-> k, token |-> w,
                             before |-> b, text |-> b \o w \o Chars(" it."),
                             done |-> FALSE, out |-> << >> ] :
                           w \in Casings(SIMPLE[k][1]),
                           b \in { << >>, Chars("We ") } } :
                         k \in 1..Len(SIMPLE) }

callSimplifyWords ==
    /\ ~probe.done
    /\ probe' = [ probe EXCEPT !.done = TRUE, !.out = simplifyWords(probe.text) ]
    /\ UNCHANGED ui

NextSimplify == callSimplifyWords

SpecSimplify == InitSimplify /\ [][NextSimplify]_vars

\* the mapped value v in the case pattern of the token w
InCaseOf(w, v) ==
    IF w = toUpperCase(w) THEN toUpperCase(v)
    ELSE IF w[1] \in Upper THEN title(v)
    ELSE v

\* C10 as the specification states it: a token that is a key is replaced by
\* the mapped value in the token's case pattern: in capitals for a token in
\* capitals, capitalised for a capitalised token, as it is otherwise.
C10_AsStated ==
    probe.done =>
        probe.out = probe.before \o InCaseOf(probe.token, SIMPLE[probe.key][2])
                                 \o Chars(" it.")

(***************************************************************************)
(* humanizeSentence and its dropFillerThat step                            *)
(***************************************************************************)
\* a subject with a listed verb that has synonyms, "that", an object, and a
\* listed verb that has no synonym with "that" in capitals after a tab
HumanizePieces ==
    << "They argue", " that", " it.", " noted\tTHAT" >>

MaxHumanizePieces == 3

HumanizeLevels == { 0, 50 }

InitHumanize ==
    /\ Mounted
    /\ probe \in { [ op |-> "humanizeSentence", text |-> t, creativity |-> c,
                     done |-> FALSE, pre |-> << >>, post |-> << >>,
                     out |-> << >> ] :
                   t \in Pieced(HumanizePieces, MaxHumanizePieces),
                   c \in HumanizeLevels }

\* one run of humanizeSentence: the text before and after its dropFillerThat
\* step, and what it returns
callHumanizeSentence ==
    /\ ~probe.done
    /\ \E r \in humanizeSteps(probe.text, probe.creativity) :
          probe' = [ probe EXCEPT !.done = TRUE, !.pre = r.pre, !.post = r.post,
                                  !.out = r.out ]
    /\ UNCHANGED ui

NextHumanize == callHumanizeSentence

SpecHumanize == InitHumanize /\ [][NextHumanize]_vars

\* the spans << a, b >> of t that hold white space and then the word "that",
\* right after one of the listed verbs as a whole word
FillerSpans(t) ==
    { sp \in (1..Len(t)) \X (1..Len(t)) :
        /\ sp[2] - sp[1] >= 4
        /\ LitAt(t, sp[2] - 3, THAT, TRUE)
        /\ Boundary(t, sp[2] + 1)
        /\ \A i \in sp[1]..(sp[2] - 4) : t[i] \in Space
        /\ sp[1] > 1
        /\ t[sp[1] - 1] \notin Space
        /\ \E k \in 1..Len(FILLER_VERBS) :
              /\ LitAt(t, sp[1] - Len(FILLER_VERBS[k]), FILLER_VERBS[k], TRUE)
              /\ Boundary(t, sp[1] - Len(FILLER_VERBS[k])) }

\* t without the characters of the spans S
DeleteSpans(t, S) ==
    LET keep == { i \in 1..Len(t) : ~ \E sp \in S : sp[1] <= i /\ i <= sp[2] }
    IN  [ k \in 1..Cardinality(keep) |->
            t[CHOOSE i \in keep : Cardinality({ j \in keep : j < i }) = k - 1] ]

\* how many tokens of t are the word "that"
CountThat(t) ==
    Cardinality({ k \in 1..Len(tokens(t)) : lc(tokens(t)[k]) = THAT })

\* C9 as the specification states it: whatever the creativity and the draws,
\* the rewritten sentence has lost each "that" that follows a listed verb in
\* the input sentence, and no other.
C9_AsStated ==
    probe.done =>
        CountThat(probe.out) =
            CountThat(probe.text) - Cardinality(FillerSpans(probe.text))

\* C9, amended: at a creativity above 0 the dropFillerThat step deletes each
\* "that", with the white space before it, that follows a listed verb in the
\* sentence as the step receives it, and nothing else; at creativity 0 the
\* step returns the sentence as it is.
C9_FillerThat ==
    probe.done =>
        probe.post = IF probe.creativity > 0
                     THEN DeleteSpans(probe.pre, FillerSpans(probe.pre))
                     ELSE probe.pre

\* "argue that" reaches the step with its verb kept, at a creativity above 0,
\* and leaves it without the "that"
C9_Witness ==
    /\ probe.done
    /\ probe.creativity > 0
    /\ FillerSpans(probe.text) # { }
    /\ \E sp \in FillerSpans(probe.pre) :
          LitAt(probe.pre, sp[1] - 5, Chars("argue"), TRUE)
    /\ probe.post # probe.pre
    /\ CountThat(probe.post) = CountThat(probe.pre) - Cardinality(FillerSpans(probe.pre))

(***************************************************************************)
(* weaveLengths and the words of its sentences                             *)
(***************************************************************************)
\* the tokens of the sentences ss joined by a space, in lower case
WordsOf(ss) ==
    [ k \in 1..Len(tokens(join(ss, << " " >>))) |->
        lc(tokens(join(ss, << " " >>))[k]) ]

\* C11 as the specification states it: the words of the sentences that
\* weaveLengths returns are, in order, the words of the sentences it was
\* given: no split cuts a word in two.
C11_AsStated ==
    probe.done => WordsOf(probe.out) = WordsOf(probe.sentences)

(***************************************************************************)
(* The component under the user's events                                   *)
(***************************************************************************)
\* what the user types or pastes into the input box: nothing, a sentence
\* with a word that has synonyms, and two paragraphs
TypedTexts == { << >>, Chars("Use it."), Chars("Hi.\n\nAa bb.") }

Init ==
    /\ Mounted
    /\ probe = [ op |-> "KaptainHumanizer" ]

typeInput == \E value \in TypedTexts : handleInputChange(value)

moveSlider == \E c \in Levels : setCreativity(c)

\* the user's events, and the continuation of a Humanize after its pause
Next ==
    \/ typeInput
    \/ moveSlider
    \/ handleHumanize
    \/ humanizeResume
    \/ handleCheckAI
    \/ handleCopy
    \/ handleReset

Spec == Init /\ [][Next]_vars

\* the chip "Human n% - AI n%" is rendered
ChipShown == humanPct # Null /\ aiPct # Null

\* C12 as the specification states it: from a press of Reset until the next
\* press of Humanize or Check AI, whatever else happens, the output is empty
\* and the chip is hidden.
C12_AsStated == afterReset => (output = << >> /\ ~ChipShown)

=============================================================================
